---- MODULE Spec2Model ----
(***************************************************************************)
(* Model of scripts/historical_events.py: the historical OMNI solar-wind   *)
(* pipeline (main -> fetch_event_data -> parse_omni_line -> date filter -> *)
(* process_event_data -> generate_summary).                                *)
(*                                                                         *)
(* Numbers.  Python floats are modelled as exact fixed-point integers; the *)
(* unit of a column is 1/Scale[name]:                                      *)
(*   year, doy, hour                      tenths                           *)
(*   imf_*, plasma_temp, proton_density,  hundredths                       *)
(*   kp, dst                              hundredths                       *)
(*   plasma_speed                         whole km/s                       *)
(* Derived quantities: pressure in 1e-8 nPa, standoff in milli Earth       *)
(* radii, true Kp and the average speed as exact fractions [n, d].         *)
(* A token is either non-numeric text (float() raises ValueError) or a     *)
(* finite decimal numeral; "nan"/"inf" numerals and numerals at exactly    *)
(* 0.1 from a fill value (where the outcome depends on binary rounding)    *)
(* are outside the token sets.                                             *)
(***************************************************************************)
EXTENDS Integers, Sequences, FiniteSets, TLC

VARIABLES
    pc,          \* position in main(): "main", "fetch", "fetched", "processed", "done", "crashed"
    args,        \* the parsed command line (args.event / args.date / args.hours)
    range,       \* start_year, start_doy, end_year, end_doy of fetch_event_data
    year,        \* loop variable of "for year in range(start_year, end_year + 1)"
    all_data,    \* all_data of fetch_event_data / raw_data of main
    processed,   \* processed['data'] of process_event_data
    summary,     \* processed_data['summary'] set by save_event_data
    saved,       \* whether save_event_data wrote the output artifact
    exc,         \* the exception that escaped to the caller of main, or "none"
    report,      \* what main() reported instead of running: "none" or "unknown_event"
    log          \* history: what fetch_omni_year returned for each year fetched so far

vars == <<pc, args, range, year, all_data, processed, summary, saved, exc, report, log>>

----------------------------------------------------------------------------
(* Optional values: Python's None against a float.                         *)

None == [some |-> FALSE, v |-> 0]

Some(x) == [some |-> TRUE, v |-> x]

\* Python truthiness of "None or a float": None and 0.0 are falsy.
Truthy(x) == x.some /\ x.v # 0

Abs(x) == IF x < 0 THEN -x ELSE x

\* int(float): truncation toward zero of a value held in units of 1/scale.
TruncInt(x, scale) == IF x >= 0 THEN x \div scale ELSE -((-x) \div scale)

----------------------------------------------------------------------------
(* OMNI_COLUMNS, FILL_VALUES and the fixed-point unit of each column.      *)

FieldNames ==
    {"year", "doy", "hour", "imf_magnitude", "imf_bx_gse", "imf_by_gse",
     "imf_bz_gse", "plasma_temp", "proton_density", "plasma_speed", "kp", "dst"}

OMNI_COLUMNS ==
    [year |-> 0, doy |-> 1, hour |-> 2, imf_magnitude |-> 9, imf_bx_gse |-> 14,
     imf_by_gse |-> 15, imf_bz_gse |-> 16, plasma_temp |-> 22,
     proton_density |-> 23, plasma_speed |-> 24, kp |-> 38, dst |-> 40]

Scale ==
    [year |-> 10, doy |-> 10, hour |-> 10, imf_magnitude |-> 100,
     imf_bx_gse |-> 100, imf_by_gse |-> 100, imf_bz_gse |-> 100,
     plasma_temp |-> 100, proton_density |-> 100, plasma_speed |-> 1,
     kp |-> 100, dst |-> 100]

\* FILL_VALUES in the column's unit; year, doy and hour have no fill value
\* (FILL_VALUES.get(name) is None for them).
FILL_VALUES ==
    [year |-> None, doy |-> None, hour |-> None,
     imf_magnitude |-> Some(99990), imf_bx_gse |-> Some(99990),
     imf_by_gse |-> Some(99990), imf_bz_gse |-> Some(99990),
     plasma_temp |-> Some(999999900), proton_density |-> Some(99990),
     plasma_speed |-> Some(9999), kp |-> Some(9900), dst |-> Some(9999900)]

\* Variant of IsFill without the tolerance: only the exact fill value matches.
IsFillExact(name, val) ==
    /\ Truthy(FILL_VALUES[name])
    /\ val = FILL_VALUES[name].v

\* "if fill and abs(val - fill) < 0.1": 0.1 is Scale/10 units.
IsFill(name, val) ==
    /\ Truthy(FILL_VALUES[name])
    /\ Abs(val - FILL_VALUES[name].v) < Scale[name]
    /\ Abs(val - FILL_VALUES[name].v) * 10 < Scale[name]

\* One decoded column: float(parts[col]) followed by the fill check.
Decode(name, val) == IF IsFill(name, val) THEN None ELSE Some(val)

----------------------------------------------------------------------------
(* Calendar arithmetic of datetime (proleptic Gregorian).                  *)

MINYEAR == 1

MAXYEAR == 9999

IsLeap(y) == y % 4 = 0 /\ (y % 100 # 0 \/ y % 400 = 0)

DaysInMonth(y, m) ==
    IF m = 2 THEN (IF IsLeap(y) THEN 29 ELSE 28)
    ELSE IF m \in {4, 6, 9, 11} THEN 30 ELSE 31

RECURSIVE DaysBeforeMonth(_, _)
DaysBeforeMonth(y, m) ==
    IF m <= 1 THEN 0 ELSE DaysBeforeMonth(y, m - 1) + DaysInMonth(y, m - 1)

\* Number of days before January 1 of year y (year 1 -> 0).
DaysBeforeYear(y) ==
    LET p == y - 1 IN 365 * p + (p \div 4) - (p \div 100) + (p \div 400)

\* date.toordinal(): 0001-01-01 is day 1.
ToOrdinal(y, m, d) == DaysBeforeYear(y) + DaysBeforeMonth(y, m) + d

MAXORDINAL == ToOrdinal(MAXYEAR, 12, 31)

\* datetime.strptime(date_str, '%Y-%m-%d') then (dt.year, dt.timetuple().tm_yday).
\* A date string is modelled by its three numbers.
date_to_doy(date) ==
    [year |-> date.y, doy |-> DaysBeforeMonth(date.y, date.m) + date.d]

\* The year and the 0-based day of that year of an ordinal (datetime's _ord2ymd).
OrdinalYearDay(ordinal) ==
    LET n0   == ordinal - 1
        n400 == n0 \div 146097
        r400 == n0 % 146097
        n100 == r400 \div 36524
        r100 == r400 % 36524
        n4   == r100 \div 1461
        r4   == r100 % 1461
        n1   == r4 \div 365
        r1   == r4 % 365
        y    == n400 * 400 + n100 * 100 + n4 * 4 + n1 + 1
    IN  IF n1 = 4 \/ n100 = 4
        THEN [y |-> y - 1, yday |-> DaysBeforeMonth(y - 1, 12) + 30]
        ELSE [y |-> y, yday |-> r1]

\* The civil fields isoformat() prints for the instant t, in hours since
\* 0001-01-01T00:00 (minutes and seconds are always 00).
IsoFormat(t) ==
    LET yd == OrdinalYearDay((t \div 24) + 1)
        m  == CHOOSE k \in 1..12 :
                 /\ DaysBeforeMonth(yd.y, k) <= yd.yday
                 /\ yd.yday < DaysBeforeMonth(yd.y, k) + DaysInMonth(yd.y, k)
    IN  [has |-> TRUE, y |-> yd.y, m |-> m,
         d |-> yd.yday - DaysBeforeMonth(yd.y, m) + 1, h |-> t % 24]

NoTimestamp == [has |-> FALSE, y |-> 0, m |-> 0, d |-> 0, h |-> 0]

\* datetime(year, 1, 1) + timedelta(days=doy-1, hours=hour).  datetime() raises
\* ValueError for a year outside MINYEAR..MAXYEAR; the addition raises
\* OverflowError when the result leaves 0001-01-01 .. 9999-12-31.
doy_to_date(y, doy, hour) ==
    IF y < MINYEAR \/ y > MAXYEAR THEN [kind |-> "ValueError", t |-> 0]
    ELSE LET t == (DaysBeforeYear(y) + doy - 1) * 24 + hour
             ordinal == (t \div 24) + 1
         IN  IF ordinal < 1 \/ ordinal > MAXORDINAL
             THEN [kind |-> "OverflowError", t |-> 0]
             ELSE [kind |-> "ok", t |-> t]

----------------------------------------------------------------------------
(* parse_omni_line.  A line is its token count and the tokens at the used  *)
(* columns: tok[name] = [bad |-> non-numeric text, v |-> the numeral's     *)
(* value in the column's unit].                                            *)

MinTokens == 45

Num(x) == [bad |-> FALSE, v |-> x]

BadToken == [bad |-> TRUE, v |-> 0]

NoRecord ==
    [val |-> [name \in FieldNames |-> None], timestamp |-> NoTimestamp]

ParseNone == [kind |-> "none", rec |-> NoRecord]

ParseRaise(e) == [kind |-> e, rec |-> NoRecord]

\* Variant of HasTimestampFields that tests all three columns with "is not None".
HasTimestampFieldsAllPresent(val) ==
    val["year"].some /\ val["doy"].some /\ val["hour"].some

\* "if record.get('year') and record.get('doy') and record.get('hour') is not None"
HasTimestampFields(val) ==
    Truthy(val["year"]) /\ Truthy(val["doy"]) /\ val["hour"].some

\* Variant of TooShort that asks only for the columns OMNI_COLUMNS reads.
TooShortForColumns(line) == line.ntok <= OMNI_COLUMNS["dst"]

\* "if len(parts) < 45"
TooShort(line) == line.ntok < MinTokens

\* Returns [kind, rec]: kind "record" (a dict is returned), "none" (None is
\* returned) or the name of the exception that escapes the function; only
\* ValueError and IndexError are caught.
parse_omni_line(line) ==
    IF TooShort(line) THEN ParseNone
    ELSE IF \E name \in FieldNames :
               OMNI_COLUMNS[name] < line.ntok /\ line.tok[name].bad
    THEN ParseNone
    ELSE LET val == [name \in FieldNames |->
                        IF OMNI_COLUMNS[name] < line.ntok
                        THEN Decode(name, line.tok[name].v) ELSE None]
         IN  IF HasTimestampFields(val)
             THEN LET dt == doy_to_date(TruncInt(val["year"].v, Scale["year"]),
                                        TruncInt(val["doy"].v, Scale["doy"]),
                                        TruncInt(val["hour"].v, Scale["hour"]))
                  IN  CASE dt.kind = "ok" ->
                             [kind |-> "record",
                              rec |-> [val |-> val, timestamp |-> IsoFormat(dt.t)]]
                        [] dt.kind = "ValueError" -> ParseNone
                        [] OTHER -> ParseRaise(dt.kind)
             ELSE [kind |-> "record",
                   rec |-> [val |-> val, timestamp |-> NoTimestamp]]

----------------------------------------------------------------------------
(* fetch_event_data: the date-range filter and the loop over one year's    *)
(* lines.                                                                  *)

\* rec_year = int(record.get('year', 0)); rec_doy = int(record.get('doy', 0))
rec_year(rec) == TruncInt(rec.val["year"].v, Scale["year"])

rec_doy(rec) == TruncInt(rec.val["doy"].v, Scale["doy"])

\* Variant of InDateRange that also drops the start day itself.
InDateRangeStrict(rec, r) ==
    LET ry == rec_year(rec)
        rd == rec_doy(rec)
    IN  IF ry = r.start_year /\ rd <= r.start_doy THEN FALSE
        ELSE IF ry = r.end_year /\ rd > r.end_doy THEN FALSE
        ELSE IF ry < r.start_year \/ ry > r.end_year THEN FALSE
        ELSE TRUE

\* The three "continue" tests of the filter, in order; TRUE when the record
\* is appended to all_data.
InDateRange(rec, r) ==
    LET ry == rec_year(rec)
        rd == rec_doy(rec)
    IN  IF ry = r.start_year /\ rd < r.start_doy THEN FALSE
        ELSE IF ry = r.end_year /\ rd > r.end_doy THEN FALSE
        ELSE IF ry < r.start_year \/ ry > r.end_year THEN FALSE
        ELSE TRUE

\* Variant of ScanLines that puts each kept record in front of all_data.
RECURSIVE ScanLinesPrepend(_, _, _, _)
ScanLinesPrepend(lines, i, r, acc) ==
    IF i > Len(lines) THEN [exc |-> "none", data |-> acc]
    ELSE LET p == parse_omni_line(lines[i])
         IN  IF p.kind = "none" THEN ScanLinesPrepend(lines, i + 1, r, acc)
             ELSE IF p.kind = "record"
             THEN ScanLinesPrepend(lines, i + 1, r,
                            IF InDateRange(p.rec, r) THEN <<p.rec>> \o acc ELSE acc)
             ELSE [exc |-> p.kind, data |-> acc]

\* "for line in lines": the records appended for lines[i..], or the exception
\* that escapes parse_omni_line on the first line that raises.
RECURSIVE ScanLines(_, _, _, _)
ScanLines(lines, i, r, acc) ==
    IF i > Len(lines) THEN [exc |-> "none", data |-> acc]
    ELSE LET p == parse_omni_line(lines[i])
         IN  IF p.kind = "none" THEN ScanLines(lines, i + 1, r, acc)
             ELSE IF p.kind = "record"
             THEN ScanLines(lines, i + 1, r,
                            IF InDateRange(p.rec, r) THEN Append(acc, p.rec) ELSE acc)
             ELSE [exc |-> p.kind, data |-> acc]

----------------------------------------------------------------------------
(* calculate_magnetopause_standoff.  Pressure is in units of 1e-8 nPa      *)
(* (2e-6 * density * speed * speed with density in hundredths), distances  *)
(* in milli Earth radii.                                                   *)

DynamicPressure(density, speed) == 2 * density * speed * speed

\* 11.4 * p_dyn ** (-1/6.6), rounded down to a tenth of an Earth radius.
\* PowThresholds[k] is the largest pressure at which the value is still at
\* least 7.1 + k/10 Earth radii (k = 1 .. 239, i.e. 7.2 .. 31.0); pressures of
\* this model are below 2^31 * 1e-8 nPa, where the value exceeds 7.1.
PowThresholds ==
    <<
       2075761928, 1895139318, 1732378034, 1585505235, 1452788220, 1332702562, 1223904808, 1125209049,
       1035566766, 954049469, 879833700, 812188075, 750462042, 694076130, 642513475, 595312431,
       552060129, 512386849, 475961096, 442485281, 411691934, 383340370, 357213764, 333116560,
       310872195, 290321081, 271318819, 253734624, 237449915, 222357074, 208358338, 195364808,
       183295574, 172076928, 161641662, 151928442, 142881247, 134448862, 126584431, 119245049,
       112391396, 105987413, 100000000, 94398756, 89155736, 84245232, 79643579, 75328977,
       71281330, 67482097, 63914167, 60561731, 57410178, 54445994, 51656671, 49030628,
       46557131, 44226231, 42028693, 39955950, 38000041, 36153570, 34409657, 32761905,
       31204355, 29731462, 28338055, 27019315, 25770745, 24588151, 23467614, 22405475,
       21398314, 20442932, 19536338, 18675730, 17858488, 17082154, 16344427, 15643148,
       14976293, 14341962, 13738371, 13163846, 12616813, 12095792, 11599392, 11126305,
       10675301, 10245218, 9834967, 9443518, 9069902, 8713206, 8372567, 8047172,
       7736254, 7439089, 7154991, 6883315, 6623450, 6374817, 6136870, 5909093,
       5690997, 5482119, 5282019, 5090284, 4906519, 4730351, 4561428, 4399413,
       4243990, 4094855, 3951723, 3814322, 3682393, 3555691, 3433983, 3317048,
       3204674, 3096661, 2992820, 2892967, 2796932, 2704549, 2615662, 2530123,
       2447789, 2368525, 2292202, 2218697, 2147894, 2079680, 2013948, 1950597,
       1889530, 1830655, 1773881, 1719126, 1666308, 1615350, 1566177, 1518721,
       1472913, 1428689, 1385987, 1344747, 1304915, 1266435, 1229256, 1193328,
       1158604, 1125038, 1092587, 1061210, 1030865, 1001515, 973124, 945655,
       919075, 893352, 868455, 844353, 821018, 798422, 776540, 755345,
       734814, 714923, 695649, 676971, 658869, 641321, 624310, 607815,
       591821, 576310, 561265, 546670, 532510, 518772, 505439, 492500,
       479941, 467749, 455912, 444419, 433259, 422420, 411892, 401665,
       391729, 382075, 372694, 363578, 354717, 346104, 337731, 329590,
       321674, 313977, 306491, 299210, 292127, 285236, 278532, 272009,
       265661, 259483, 253470, 247617, 241919, 236371, 230970, 225710,
       220587, 215598, 210739, 206005, 201393, 196900, 192521, 188255,
       184097, 180044, 176094, 172243, 168489, 164828, 161259, 157779,
       154385, 151075, 147846, 144696, 141624, 138626, 135701
    >>

QuietStandoff(p_dyn) ==
    7100 + 100 * Cardinality({k \in 1..Len(PowThresholds) : p_dyn <= PowThresholds[k]})

Min2(a, b) == IF a < b THEN a ELSE b

Max2(a, b) == IF a > b THEN a ELSE b

\* Variant of Clamp that returns r0 as computed.
ClampNone(r0) == r0

\* "return max(4.0, min(15.0, r0))"
Clamp(r0) == Max2(4000, Min2(15000, r0))

\* Variant of calculate_magnetopause_standoff without the "else: r0 = 10.0"
\* branch: at zero pressure r0 is unbounded and the clamp returns its upper end.
StandoffUnboundedAtZero(density, speed, bz) ==
    IF ~density.some \/ ~speed.some THEN 10000
    ELSE LET p_dyn == DynamicPressure(density.v, speed.v)
             bz_factor == IF bz.some /\ bz.v < 0 THEN 5000 + Abs(bz.v) ELSE 5000
             r0 == IF p_dyn > 0
                   THEN (QuietStandoff(p_dyn) * 5000) \div bz_factor
                   ELSE 15000
         IN  Clamp(r0)

\* Variant of calculate_magnetopause_standoff in which the default of an absent
\* density or speed is divided by bz_factor and clamped like a computed r0.
StandoffDefaultCompressed(density, speed, bz) ==
    LET bz_factor == IF bz.some /\ bz.v < 0 THEN 5000 + Abs(bz.v) ELSE 5000
        p_dyn == IF density.some /\ speed.some
                 THEN DynamicPressure(density.v, speed.v) ELSE 0
        r0 == IF p_dyn > 0
              THEN (QuietStandoff(p_dyn) * 5000) \div bz_factor
              ELSE IF density.some /\ speed.some THEN 10000
              ELSE (10000 * 5000) \div bz_factor
    IN  Clamp(r0)

\* density, speed, bz are optional; the result is in milli Earth radii.
\* bz_factor = 1.0 + 0.02 * abs(bz) = (5000 + |bz in hundredths|) / 5000.
calculate_magnetopause_standoff(density, speed, bz) ==
    IF ~density.some \/ ~speed.some THEN 10000
    ELSE LET p_dyn == DynamicPressure(density.v, speed.v)
             bz_factor == IF bz.some /\ bz.v < 0 THEN 5000 + Abs(bz.v) ELSE 5000
             r0 == IF p_dyn > 0
                   THEN (QuietStandoff(p_dyn) * 5000) \div bz_factor
                   ELSE 10000
         IN  Clamp(r0)

----------------------------------------------------------------------------
(* calculate_storm_intensity.  dst and raw kp are optional, in hundredths. *)

\* x / 10.0 as an exact fraction.
Div10(x) == [n |-> x, d |-> 10]

\* "q >= k" for a fraction q of hundredths and an integer k.
FracGE(q, k) == q.n >= k * q.d * 100

\* Variant of DstLevel with strict comparisons (dst < threshold).
DstLevelShifted(dst) ==
    LET l1 == IF dst < -5000 THEN 1 ELSE 0
        l2 == IF dst < -10000 THEN 2 ELSE l1
        l3 == IF dst < -20000 THEN 3 ELSE l2
        l4 == IF dst < -30000 THEN 4 ELSE l3
    IN  IF dst < -40000 THEN 5 ELSE l4

\* Variant of DstLevel with the five statements in the opposite order, so that
\* the statement for -50 is the last one to assign.
DstLevelReversed(dst) ==
    LET l5 == IF dst <= -40000 THEN 5 ELSE 0
        l4 == IF dst <= -30000 THEN 4 ELSE l5
        l3 == IF dst <= -20000 THEN 3 ELSE l4
        l2 == IF dst <= -10000 THEN 2 ELSE l3
    IN  IF dst <= -5000 THEN 1 ELSE l2

\* The five independent "if dst <= ...: dst_level = k" statements in order.
DstLevel(dst) ==
    LET l1 == IF dst <= -5000 THEN 1 ELSE 0
        l2 == IF dst <= -10000 THEN 2 ELSE l1
        l3 == IF dst <= -20000 THEN 3 ELSE l2
        l4 == IF dst <= -30000 THEN 4 ELSE l3
    IN  IF dst <= -40000 THEN 5 ELSE l4

\* The five independent "if kp >= ...: kp_level = k" statements in order.
KpLevel(kp) ==
    LET l1 == IF FracGE(kp, 5) THEN 1 ELSE 0
        l2 == IF FracGE(kp, 6) THEN 2 ELSE l1
        l3 == IF FracGE(kp, 7) THEN 3 ELSE l2
        l4 == IF FracGE(kp, 8) THEN 4 ELSE l3
    IN  IF FracGE(kp, 9) THEN 5 ELSE l4

calculate_storm_intensity(dst, kp) ==
    LET dst0 == IF ~dst.some THEN 0 ELSE dst.v
        kp0  == IF ~kp.some THEN [n |-> 0, d |-> 1] ELSE Div10(kp.v)
    IN  Max2(DstLevel(dst0), KpLevel(kp0))

----------------------------------------------------------------------------
(* process_event_data.                                                     *)

NoFrac == [some |-> FALSE, n |-> 0, d |-> 1]

\* One iteration of "for record in raw_data" for a record that has a timestamp.
ProcessRecord(record) ==
    LET density == record.val["proton_density"]
        speed   == record.val["plasma_speed"]
        bz      == record.val["imf_bz_gse"]
        dst     == record.val["dst"]
        kp      == record.val["kp"]
        temp    == record.val["plasma_temp"]
        pressure == IF Truthy(density) /\ Truthy(speed)
                    THEN Some(DynamicPressure(density.v, speed.v))
                    ELSE None
    IN  [timestamp |-> record.timestamp,
         solar_wind |-> [speed |-> speed, density |-> density,
                         temperature |-> temp, pressure |-> pressure],
         imf |-> [magnitude |-> record.val["imf_magnitude"],
                  bx |-> record.val["imf_bx_gse"],
                  by |-> record.val["imf_by_gse"],
                  bz |-> bz],
         geomagnetic |-> [dst |-> dst,
                          kp |-> IF Truthy(kp)
                                 THEN [some |-> TRUE, n |-> kp.v, d |-> 10]
                                 ELSE NoFrac,
                          storm_level |-> calculate_storm_intensity(dst, kp)],
         magnetosphere |-> [standoff_re |->
                               calculate_magnetopause_standoff(density, speed, bz)]]

\* "if not record.get('timestamp'): continue"
SkipsRecord(record) == ~record.timestamp.has

\* processed['data']; generated_at (the wall clock) is not modelled.
RECURSIVE process_event_data(_)
process_event_data(raw_data) ==
    IF raw_data = <<>> THEN <<>>
    ELSE LET rest == process_event_data(Tail(raw_data))
         IN  IF SkipsRecord(Head(raw_data)) THEN rest
             ELSE <<ProcessRecord(Head(raw_data))>> \o rest

----------------------------------------------------------------------------
(* generate_summary.                                                       *)

RECURSIVE MaxOf(_)
MaxOf(s) == IF Len(s) = 1 THEN s[1] ELSE Max2(s[1], MaxOf(Tail(s)))

RECURSIVE MinOf(_)
MinOf(s) == IF Len(s) = 1 THEN s[1] ELSE Min2(s[1], MinOf(Tail(s)))

RECURSIVE SumOf(_)
SumOf(s) == IF s = <<>> THEN 0 ELSE s[1] + SumOf(Tail(s))

\* "[d[...] for d in data if d[...]]": the values of the records whose value
\* is truthy.
RECURSIVE Truthies(_)
Truthies(opts) ==
    IF opts = <<>> THEN <<>>
    ELSE IF Truthy(Head(opts)) THEN <<Head(opts).v>> \o Truthies(Tail(opts))
    ELSE Truthies(Tail(opts))

OptMax(s) == IF s # <<>> THEN Some(MaxOf(s)) ELSE None

OptMin(s) == IF s # <<>> THEN Some(MinOf(s)) ELSE None

\* Variant of EmptySummary: a dict with every key, zero hours and every
\* statistic absent, in place of the empty dict.
SummaryOfNothing ==
    [empty |-> FALSE,
     time_range |-> [start |-> NoTimestamp, end |-> NoTimestamp, hours |-> 0],
     solar_wind |-> [max_speed |-> None, min_speed |-> None, avg_speed |-> NoFrac,
                     max_density |-> None],
     geomagnetic |-> [min_dst |-> None, max_storm_level |-> 0],
     imf |-> [min_bz |-> None, max_bz |-> None]]

EmptySummary ==
    [empty |-> TRUE,
     time_range |-> [start |-> NoTimestamp, end |-> NoTimestamp, hours |-> 0],
     solar_wind |-> [max_speed |-> None, min_speed |-> None, avg_speed |-> NoFrac,
                     max_density |-> None],
     geomagnetic |-> [min_dst |-> None, max_storm_level |-> 0],
     imf |-> [min_bz |-> None, max_bz |-> None]]

\* EmptySummary stands for the empty dict {}.
generate_summary(data) ==
    IF data = <<>> THEN EmptySummary
    ELSE LET speeds    == Truthies([i \in 1..Len(data) |-> data[i].solar_wind.speed])
             densities == Truthies([i \in 1..Len(data) |-> data[i].solar_wind.density])
             dsts      == Truthies([i \in 1..Len(data) |-> data[i].geomagnetic.dst])
             bzs       == Truthies([i \in 1..Len(data) |-> data[i].imf.bz])
         IN  [empty |-> FALSE,
              time_range |-> [start |-> data[1].timestamp,
                              end |-> data[Len(data)].timestamp,
                              hours |-> Len(data)],
              solar_wind |-> [max_speed |-> OptMax(speeds),
                              min_speed |-> OptMin(speeds),
                              avg_speed |-> IF speeds # <<>>
                                            THEN [some |-> TRUE, n |-> SumOf(speeds),
                                                  d |-> Len(speeds)]
                                            ELSE NoFrac,
                              max_density |-> OptMax(densities)],
              geomagnetic |-> [min_dst |-> OptMin(dsts),
                               max_storm_level |->
                                   MaxOf([i \in 1..Len(data) |->
                                             data[i].geomagnetic.storm_level])],
              imf |-> [min_bz |-> OptMin(bzs), max_bz |-> OptMax(bzs)]]

----------------------------------------------------------------------------
(* The event catalog and the command line.                                 *)

Date(y, m, d) == [y |-> y, m |-> m, d |-> d]

\* start and end of each catalog entry (the other keys are descriptive text).
HISTORICAL_EVENTS ==
    [halloween2003 |-> [start |-> Date(2003, 10, 28), end |-> Date(2003, 11, 2)],
     march1989     |-> [start |-> Date(1989, 3, 10),  end |-> Date(1989, 3, 15)],
     bastille2000  |-> [start |-> Date(2000, 7, 14),  end |-> Date(2000, 7, 17)],
     may2024       |-> [start |-> Date(2024, 5, 10),  end |-> Date(2024, 5, 14)],
     october2024   |-> [start |-> Date(2024, 10, 1),  end |-> Date(2024, 10, 5)]]

NoDate == Date(0, 0, 0)

EventArgs(id) == [event |-> id, date |-> NoDate, hours |-> 48]

DateArgs(date, hours) == [event |-> "", date |-> date, hours |-> hours]

\* "end = start + timedelta(hours=args.hours)" then strftime('%Y-%m-%d').
EndDate(start, hours) ==
    LET c == IsoFormat((ToOrdinal(start.y, start.m, start.d) - 1) * 24 + hours)
    IN  Date(c.y, c.m, c.d)

\* The local variables of fetch_event_data computed from its two arguments.
DateRange(start_date, end_date) ==
    LET s == date_to_doy(start_date)
        e == date_to_doy(end_date)
    IN  [start_year |-> s.year, start_doy |-> s.doy,
         end_year |-> e.year, end_doy |-> e.doy]

NoRange == [start_year |-> 0, start_doy |-> 0, end_year |-> 0, end_doy |-> 0]

----------------------------------------------------------------------------
(* The lines a year's partition may hold.                                  *)

MaxLines == 2

Line(ntok, y, doy, hour, mag, bx, by, bz, temp, den, spd, kp, dst) ==
    [ntok |-> ntok,
     tok |-> [year |-> y, doy |-> doy, hour |-> hour, imf_magnitude |-> mag,
              imf_bx_gse |-> bx, imf_by_gse |-> by, imf_bz_gse |-> bz,
              plasma_temp |-> temp, proton_density |-> den,
              plasma_speed |-> spd, kp |-> kp, dst |-> dst]]

\* A day of year that the filter keeps / drops in the partition of year y.
InsideDoy(y, r) == IF y = r.start_year THEN r.start_doy ELSE 1

OutsideDoy(y, r) == IF y = r.start_year THEN r.start_doy - 1 ELSE r.end_doy + 1

\* Dst=-450, Kp=90, density=10, speed=800, Bz=-20 at hour 0 of (y, doy).
StormLine(y, doy) ==
    Line(55, Num(y * 10), Num(doy * 10), Num(0), Num(2500), Num(-500), Num(300),
         Num(-2000), Num(10000000), Num(1000), Num(800), Num(9000), Num(-45000))

\* A quiet hour whose Kp, Dst, Bz and density are exactly zero.
QuietLine(y, doy) ==
    Line(55, Num(y * 10), Num(doy * 10), Num(10), Num(300), Num(100), Num(-100),
         Num(0), Num(5000000), Num(0), Num(400), Num(0), Num(0))

\* Every column that has a fill value holds exactly that value.
FillLine(y, doy) ==
    Line(55, Num(y * 10), Num(doy * 10), Num(20), Num(99990), Num(99990), Num(99990),
         Num(99990), Num(999999900), Num(99990), Num(9999), Num(9900), Num(9999900))

\* Every column that has a fill value is within 0.05 of it where the unit allows.
NearFillLine(y, doy) ==
    Line(55, Num(y * 10), Num(doy * 10), Num(30), Num(99985), Num(99995), Num(99985),
         Num(99995), Num(999999895), Num(99985), Num(9999), Num(9905), Num(9999895))

\* A moderate hour with Dst=-120 and Bz=+5.
ModerateLine(y, doy) ==
    Line(45, Num(y * 10), Num(doy * 10), Num(40), Num(800), Num(200), Num(100),
         Num(500), Num(20000000), Num(500), Num(600), Num(5000), Num(-12000))

CoreLines(y, r) ==
    { StormLine(y, InsideDoy(y, r)),
      QuietLine(y, InsideDoy(y, r)),
      FillLine(y, InsideDoy(y, r)),
      NearFillLine(y, InsideDoy(y, r)),
      ModerateLine(y, InsideDoy(y, r)),
      StormLine(y, OutsideDoy(y, r)),
      \* too few tokens
      [StormLine(y, InsideDoy(y, r)) EXCEPT !.ntok = 44],
      \* a non-numeric token at the speed column
      [StormLine(y, InsideDoy(y, r)) EXCEPT !.tok["plasma_speed"] = BadToken],
      \* day 366 of year 9999: no such instant in datetime
      StormLine(9999, 366),
      \* day-of-year 0
      StormLine(y, 0) }

RECURSIVE SeqsUpTo(_, _)
SeqsUpTo(S, n) ==
    IF n = 0 THEN {<<>>}
    ELSE LET shorter == SeqsUpTo(S, n - 1)
         IN  shorter \cup {Append(q, x) : q \in shorter, x \in S}

\* data.strip().split('\n') is never the empty list: an empty body is [''].
\* The last year's partition holds 1..MaxLines lines, an earlier year's one line.
CorePartitions(y, r) ==
    IF y = r.end_year THEN SeqsUpTo(CoreLines(y, r), MaxLines) \ {<<>>}
    ELSE {<<l>> : l \in CoreLines(y, r)}

\* Single-line partitions that vary one group of columns of the storm line at
\* a time: the timestamp columns, (density, speed, Bz), (Kp, Dst), the
\* pass-through columns, and the token count.
TimeLines(y, r) ==
    { [StormLine(y, 1) EXCEPT !.tok["year"] = Num(yy), !.tok["doy"] = Num(dd),
                              !.tok["hour"] = Num(hh)] :
        yy \in {y * 10, (y - 1) * 10, (y + 1) * 10, y * 10 + 5, 0, 99990, 100000},
        dd \in {0, 5, 10, -10, (r.start_doy - 1) * 10, r.start_doy * 10,
                r.start_doy * 10 + 5, r.end_doy * 10, r.end_doy * 10 + 5,
                (r.end_doy + 1) * 10, 3660, 40000000},
        hh \in {0, 230, 235, 250, -10} }

FlowLines(y, r) ==
    { [StormLine(y, InsideDoy(y, r)) EXCEPT !.tok["proton_density"] = den,
                                            !.tok["plasma_speed"] = spd,
                                            !.tok["imf_bz_gse"] = bz] :
        den \in {Num(0), Num(5), Num(500), Num(1000), Num(-100), Num(99985),
                 Num(99990), Num(99995), BadToken},
        spd \in {Num(0), Num(400), Num(800), Num(1000), Num(9999)},
        bz  \in {Num(-4500), Num(-2000), Num(0), Num(500), Num(99985), Num(99990),
                 Num(100005)} }

IndexLines(y, r) ==
    { [StormLine(y, InsideDoy(y, r)) EXCEPT !.tok["kp"] = Num(kp),
                                            !.tok["dst"] = Num(dst)] :
        kp  \in {0, 3000, 4995, 5000, 6000, 7000, 8000, 8995, 9000, 9885, 9895,
                 9900, 9905, 9915},
        dst \in {0, 3000, -4900, -4999, -5000, -10000, -19999, -20000, -30000,
                 -39999, -40000, -45000, 9999900, 9999895, 9999885} }

PassLines(y, r) ==
    { [StormLine(y, InsideDoy(y, r)) EXCEPT !.tok["plasma_temp"] = Num(temp),
                                            !.tok["imf_magnitude"] = Num(mag),
                                            !.tok["imf_bx_gse"] = Num(bx),
                                            !.tok["imf_by_gse"] = by] :
        temp \in {0, 10000000, 999999900, 999999895, 999999915},
        mag  \in {2500, 99990, 99985},
        bx   \in {-500, 99995, 99975},
        by   \in {Num(300), Num(99990), BadToken} }

CountLines(y, r) ==
    { [StormLine(y, InsideDoy(y, r)) EXCEPT !.ntok = n] : n \in {0, 3, 44, 45, 46} }

\* Lines of 41 and 44 tokens (every column OMNI_COLUMNS reads exists) whose
\* tokens are those of a storm hour, of sentinels only, of a non-numeric year,
\* of day 366 of year 9999, and of day-of-year 0.
ShortLines(y, r) ==
    { [l EXCEPT !.ntok = n] :
        n \in {41, 44},
        l \in { StormLine(y, InsideDoy(y, r)),
                FillLine(y, InsideDoy(y, r)),
                [StormLine(y, InsideDoy(y, r)) EXCEPT !.tok["year"] = BadToken],
                StormLine(9999, 366),
                StormLine(y, 0) } }

\* The start year's partition is the storm line alone; the end year's
\* partition is one line of the sets above.
RecordPartitions(y, r) ==
    IF y # r.end_year THEN {<<StormLine(y, InsideDoy(y, r))>>}
    ELSE {<<l>> : l \in TimeLines(y, r) \cup FlowLines(y, r) \cup IndexLines(y, r)
                         \cup PassLines(y, r) \cup CountLines(y, r)
                         \cup ShortLines(y, r)}

----------------------------------------------------------------------------
(* main(), one action per step.                                            *)

\* "carrington1859" is not a key of HISTORICAL_EVENTS; the last command line
\* gives it together with --date.
ArgSet ==
    { EventArgs("halloween2003"), EventArgs("may2024"), EventArgs("carrington1859"),
      DateArgs(Date(2003, 12, 31), 48),
      [DateArgs(Date(2003, 12, 31), 48) EXCEPT !.event = "carrington1859"] }

RecordArgSet ==
    { EventArgs("halloween2003"), DateArgs(Date(2003, 12, 31), 48) }

InitWith(A) ==
    /\ pc = "main"
    /\ args \in A
    /\ range = NoRange
    /\ year = 0
    /\ all_data = <<>>
    /\ processed = <<>>
    /\ summary = EmptySummary
    /\ saved = FALSE
    /\ exc = "none"
    /\ report = "none"
    /\ log = <<>>

Init == InitWith(ArgSet)

InitRecord == InitWith(RecordArgSet)

\* Variant of MainUnknownEvent that reports the id and goes on with the first
\* catalog entry.
MainUnknownEventDefaulted ==
    /\ pc = "main"
    /\ args.event # ""
    /\ args.event \notin DOMAIN HISTORICAL_EVENTS
    /\ LET info == HISTORICAL_EVENTS["halloween2003"]
       IN  range' = DateRange(info.start, info.end)
    /\ year' = range'.start_year
    /\ pc' = "fetch"
    /\ report' = "unknown_event"
    /\ UNCHANGED <<args, all_data, processed, summary, saved, exc, log>>

\* "if args.event:" with an id that is not in HISTORICAL_EVENTS.
MainUnknownEvent ==
    /\ pc = "main"
    /\ args.event # ""
    /\ args.event \notin DOMAIN HISTORICAL_EVENTS
    /\ pc' = "done"
    /\ report' = "unknown_event"
    /\ UNCHANGED <<args, range, year, all_data, processed, summary, saved, exc, log>>

\* "if args.event:" with a catalog id: fetch_event_data(info['start'], info['end'])
\* is entered.
MainEvent ==
    /\ pc = "main"
    /\ args.event # ""
    /\ args.event \in DOMAIN HISTORICAL_EVENTS
    /\ LET info == HISTORICAL_EVENTS[args.event]
       IN  range' = DateRange(info.start, info.end)
    /\ year' = range'.start_year
    /\ pc' = "fetch"
    /\ UNCHANGED <<args, all_data, processed, summary, saved, exc, report, log>>

\* "if args.date:": fetch_event_data(start, start + hours) is entered.
MainDate ==
    /\ pc = "main"
    /\ args.event = ""
    /\ args.date # NoDate
    /\ range' = DateRange(args.date, EndDate(args.date, args.hours))
    /\ year' = range'.start_year
    /\ pc' = "fetch"
    /\ UNCHANGED <<args, all_data, processed, summary, saved, exc, report, log>>

\* One iteration of "for year in range(start_year, end_year + 1)" in which
\* fetch_omni_year returns the lines of the partition.
FetchOk(lines) ==
    /\ pc = "fetch"
    /\ year <= range.end_year
    /\ LET scan == ScanLines(lines, 1, range, all_data)
       IN  /\ all_data' = scan.data
           /\ exc' = scan.exc
           /\ pc' = IF scan.exc = "none" THEN "fetch" ELSE "crashed"
           /\ year' = IF scan.exc = "none" THEN year + 1 ELSE year
    /\ log' = Append(log, [year |-> year, kind |-> "ok", lines |-> lines])
    /\ UNCHANGED <<args, range, processed, summary, saved, report>>

FetchCore == \E lines \in CorePartitions(year, range) : FetchOk(lines)

FetchRecord == \E lines \in RecordPartitions(year, range) : FetchOk(lines)

\* urlopen raises URLError (HTTPError is a URLError): fetch_omni_year returns
\* None and "if not lines: continue" skips the year.
FetchURLError ==
    /\ pc = "fetch"
    /\ year <= range.end_year
    /\ year' = year + 1
    /\ log' = Append(log, [year |-> year, kind |-> "URLError", lines |-> <<>>])
    /\ UNCHANGED <<pc, args, range, all_data, processed, summary, saved, exc, report>>

\* The 60 s timeout expires while the response is awaited or read: the socket
\* raises TimeoutError, which is not a URLError, so "except URLError" does not
\* catch it.
FetchTimeout ==
    /\ pc = "fetch"
    /\ year <= range.end_year
    /\ pc' = "crashed"
    /\ exc' = "TimeoutError"
    /\ log' = Append(log, [year |-> year, kind |-> "TimeoutError", lines |-> <<>>])
    /\ UNCHANGED <<args, range, year, all_data, processed, summary, saved, report>>

\* The loop is over: "return all_data".
FetchReturn ==
    /\ pc = "fetch"
    /\ year > range.end_year
    /\ pc' = "fetched"
    /\ UNCHANGED <<args, range, year, all_data, processed, summary, saved, exc, report, log>>

\* "if raw_data:" is false: main returns without processing or saving.
NoData ==
    /\ pc = "fetched"
    /\ all_data = <<>>
    /\ pc' = "done"
    /\ UNCHANGED <<args, range, year, all_data, processed, summary, saved, exc, report, log>>

\* "processed = process_event_data(raw_data, info)"
ProcessEventData ==
    /\ pc = "fetched"
    /\ all_data # <<>>
    /\ processed' = process_event_data(all_data)
    /\ pc' = "processed"
    /\ UNCHANGED <<args, range, year, all_data, summary, saved, exc, report, log>>

\* "save_event_data(event_id, processed)": adds the summary and writes the file.
SaveEventData ==
    /\ pc = "processed"
    /\ summary' = generate_summary(processed)
    /\ saved' = TRUE
    /\ pc' = "done"
    /\ UNCHANGED <<args, range, year, all_data, processed, exc, report, log>>

Next ==
    \/ MainUnknownEvent
    \/ MainEvent
    \/ MainDate
    \/ FetchCore
    \/ FetchURLError
    \/ FetchTimeout
    \/ FetchReturn
    \/ NoData
    \/ ProcessEventData
    \/ SaveEventData

Spec == Init /\ [][Next]_vars

NextRecord ==
    \/ MainEvent
    \/ MainDate
    \/ FetchRecord
    \/ FetchURLError
    \/ FetchTimeout
    \/ FetchReturn
    \/ NoData
    \/ ProcessEventData
    \/ SaveEventData

SpecRecord == InitRecord /\ [][NextRecord]_vars

----------------------------------------------------------------------------
(* Properties.  Helpers first: the lines fetched so far, and the lines     *)
(* whose records a correct date filter passes on.                          *)

RECURSIVE FlattenLines(_)
FlattenLines(entries) ==
    IF entries = <<>> THEN <<>>
    ELSE Head(entries).lines \o FlattenLines(Tail(entries))

\* Every line of every partition fetched so far, in fetch order.
LoggedLines == FlattenLines(log)

\* The record parse_omni_line returns for a line is a dict.
ParsesToRecord(line) == parse_omni_line(line).kind = "record"

RecordOf(line) == parse_omni_line(line).rec

\* The filter as the date-range contract words it, on the integer year and
\* day-of-year the filter reads from the record.
KeepsByContract(rec, r) ==
    /\ rec_year(rec) >= r.start_year
    /\ rec_year(rec) <= r.end_year
    /\ (rec_year(rec) = r.start_year => rec_doy(rec) >= r.start_doy)
    /\ (rec_year(rec) = r.end_year => rec_doy(rec) <= r.end_doy)

RECURSIVE KeptLines(_, _)
KeptLines(lines, r) ==
    IF lines = <<>> THEN <<>>
    ELSE LET rest == KeptLines(Tail(lines), r)
         IN  IF ParsesToRecord(Head(lines)) /\ KeepsByContract(RecordOf(Head(lines)), r)
             THEN <<Head(lines)>> \o rest
             ELSE rest

RECURSIVE RecordsOf(_)
RecordsOf(lines) ==
    IF lines = <<>> THEN <<>>
    ELSE <<RecordOf(Head(lines))>> \o RecordsOf(Tail(lines))

RECURSIVE WithTimestamp(_)
WithTimestamp(lines) ==
    IF lines = <<>> THEN <<>>
    ELSE LET rest == WithTimestamp(Tail(lines))
         IN  IF RecordOf(Head(lines)).timestamp.has THEN <<Head(lines)>> \o rest
             ELSE rest

\* The lines behind processed[1], processed[2], ... once processing is done.
ProcessedLines == WithTimestamp(KeptLines(LoggedLines, range))

Processing == pc \in {"processed", "done"} /\ processed # <<>>

\* A line no record can be made of: too few tokens, a non-numeric token at a
\* used column, or year/day/hour that name no instant of the calendar.
Malformed(line) ==
    \/ line.ntok < 45
    \/ \E name \in FieldNames : line.tok[name].bad
    \/ LET y == TruncInt(line.tok["year"].v, 10)
           d == TruncInt(line.tok["doy"].v, 10)
           h == TruncInt(line.tok["hour"].v, 10)
       IN  /\ y # 0
           /\ d # 0
           /\ \/ y < 1
              \/ y > 9999
              \/ (DaysBeforeYear(y) + d - 1) * 24 + h < 0
              \/ (DaysBeforeYear(y) + d - 1) * 24 + h >= MAXORDINAL * 24

\* C1: a single malformed line never aborts a run: parse_omni_line drops it
\* (returns no record, lets no exception escape) and fetch_event_data still
\* returns the records of every other well-formed in-range line.
C1_MalformedLineDropped ==
    /\ exc \notin {"OverflowError", "ValueError", "IndexError"}
    /\ \A i \in 1..Len(LoggedLines) :
          Malformed(LoggedLines[i]) => parse_omni_line(LoggedLines[i]).kind = "none"
    /\ pc = "fetched" => all_data = RecordsOf(KeptLines(LoggedLines, range))

\* C2: a failed fetch of one year (network error, not-found, timeout expiry)
\* costs that year's records only: the other years are still fetched, and no
\* exception reaches the caller.
C2_YearFailureRecovered ==
    /\ exc # "TimeoutError"
    /\ \A i \in 1..Len(log) :
          log[i].kind # "ok" =>
              \/ pc # "crashed"
              \/ i < Len(log)
    /\ pc = "fetched" =>
          /\ Len(log) = range.end_year - range.start_year + 1
          /\ all_data = RecordsOf(KeptLines(LoggedLines, range))

\* C3: solar_wind.pressure is 2e-6 * density * speed^2 whenever density and
\* speed are both present, and absent whenever either is absent.
C3_PressureWhenPresent ==
    \A i \in 1..Len(processed) :
        LET sw == processed[i].solar_wind
        IN  IF sw.density.some /\ sw.speed.some
            THEN sw.pressure = Some(2 * sw.density.v * sw.speed.v * sw.speed.v)
            ELSE sw.pressure = None

\* C4: geomagnetic.kp is raw Kp / 10 whenever the raw value is present, and
\* absent only when the raw value is absent.
C4_KpTrueUnits ==
    Processing =>
        /\ Len(processed) = Len(ProcessedLines)
        /\ \A i \in 1..Len(processed) :
              LET raw == RecordOf(ProcessedLines[i]).val["kp"]
                  kp  == processed[i].geomagnetic.kp
              IN  IF raw.some THEN kp.some /\ kp.n = raw.v /\ kp.d = 10
                  ELSE ~kp.some

\* The values of the records in which the field is present (not None).
RECURSIVE Presents(_)
Presents(opts) ==
    IF opts = <<>> THEN <<>>
    ELSE IF Head(opts).some THEN <<Head(opts).v>> \o Presents(Tail(opts))
    ELSE Presents(Tail(opts))

\* C5: every optional statistic of the summary is computed over exactly the
\* records in which the field is present, and is absent if and only if no
\* record has the field present.
C5_SummaryOverPresentValues ==
    (pc = "done" /\ saved) =>
        LET n == Len(processed)
            speeds    == Presents([i \in 1..n |-> processed[i].solar_wind.speed])
            densities == Presents([i \in 1..n |-> processed[i].solar_wind.density])
            dsts      == Presents([i \in 1..n |-> processed[i].geomagnetic.dst])
            bzs       == Presents([i \in 1..n |-> processed[i].imf.bz])
        IN  /\ summary.solar_wind.max_speed = OptMax(speeds)
            /\ summary.solar_wind.min_speed = OptMin(speeds)
            /\ summary.solar_wind.avg_speed =
                  (IF speeds # <<>>
                   THEN [some |-> TRUE, n |-> SumOf(speeds), d |-> Len(speeds)]
                   ELSE NoFrac)
            /\ summary.solar_wind.max_density = OptMax(densities)
            /\ summary.geomagnetic.min_dst = OptMin(dsts)
            /\ summary.imf.min_bz = OptMin(bzs)
            /\ summary.imf.max_bz = OptMax(bzs)

\* The sentinels as the input format states them, in the columns' units.
SentinelOf ==
    [imf_magnitude |-> 99990, imf_bx_gse |-> 99990, imf_by_gse |-> 99990,
     imf_bz_gse |-> 99990, proton_density |-> 99990, plasma_temp |-> 999999900,
     plasma_speed |-> 9999, kp |-> 9900, dst |-> 9999900]

\* The token of the line at the column is within 0.1 of the column's sentinel.
AtSentinel(name, line) ==
    LET dist == Abs(line.tok[name].v - SentinelOf[name])
    IN  dist < Scale[name] /\ dist * 10 < Scale[name]

\* The indices of the lines whose token at the column is a real value.
RealAt(name, lines) ==
    {i \in 1..Len(lines) : ~AtSentinel(name, lines[i])}

RECURSIVE SumRealSpeeds(_)
SumRealSpeeds(lines) ==
    IF lines = <<>> THEN 0
    ELSE (IF AtSentinel("plasma_speed", Head(lines)) THEN 0
          ELSE Head(lines).tok["plasma_speed"].v) + SumRealSpeeds(Tail(lines))

\* A reported extremum is the token of one of the lines that is no sentinel.
FromRealToken(stat, name, lines) ==
    stat.some => \E i \in RealAt(name, lines) : lines[i].tok[name].v = stat.v

\* C6: a decoded value within 0.1 of its field's sentinel becomes absent, and
\* an absent field enters no arithmetic: no pressure is computed from it, the
\* standoff and storm level are those of the remaining inputs, and the
\* summary's extrema, average speed and its count leave it out.
C6_SentinelBecomesAbsent ==
    LET logged == LoggedLines
        lines  == ProcessedLines
    IN
    /\ \A i \in 1..Len(logged) :
          LET parsed == parse_omni_line(logged[i])
          IN  parsed.kind = "record" =>
                  \A name \in DOMAIN SentinelOf :
                      AtSentinel(name, logged[i]) => ~parsed.rec.val[name].some
    /\ Processing =>
          /\ Len(processed) = Len(lines)
          /\ \A i \in 1..Len(processed) :
                LET l == lines[i]
                    v == RecordOf(l).val
                    p == processed[i]
                IN  /\ (AtSentinel("proton_density", l) \/ AtSentinel("plasma_speed", l))
                          => /\ p.solar_wind.pressure = None
                             /\ p.magnetosphere.standoff_re = 10000
                    /\ AtSentinel("imf_bz_gse", l)
                          => p.magnetosphere.standoff_re =
                                calculate_magnetopause_standoff(
                                    v["proton_density"], v["plasma_speed"], None)
                    /\ AtSentinel("dst", l)
                          => p.geomagnetic.storm_level =
                                calculate_storm_intensity(None, v["kp"])
                    /\ AtSentinel("kp", l)
                          => /\ ~p.geomagnetic.kp.some
                             /\ p.geomagnetic.storm_level =
                                   calculate_storm_intensity(v["dst"], None)
    /\ (pc = "done" /\ saved) =>
          /\ FromRealToken(summary.solar_wind.max_speed, "plasma_speed", lines)
          /\ FromRealToken(summary.solar_wind.min_speed, "plasma_speed", lines)
          /\ FromRealToken(summary.solar_wind.max_density, "proton_density", lines)
          /\ FromRealToken(summary.geomagnetic.min_dst, "dst", lines)
          /\ FromRealToken(summary.imf.min_bz, "imf_bz_gse", lines)
          /\ FromRealToken(summary.imf.max_bz, "imf_bz_gse", lines)
          /\ summary.solar_wind.avg_speed.some =>
                /\ summary.solar_wind.avg_speed.n = SumRealSpeeds(lines)
                /\ summary.solar_wind.avg_speed.d
                      <= Cardinality(RealAt("plasma_speed", lines))

\* A saved run of two processed lines: the first with real values, the second
\* with every sentinel-valued column within 0.05 of its sentinel.
C6_Witness ==
    /\ pc = "done"
    /\ saved
    /\ Len(processed) = 2
    /\ Len(ProcessedLines) = 2
    /\ ~AtSentinel("plasma_speed", ProcessedLines[1])
    /\ \A name \in DOMAIN SentinelOf : AtSentinel(name, ProcessedLines[2])
    /\ ProcessedLines[2].tok["proton_density"].v # SentinelOf["proton_density"]
    /\ summary.solar_wind.avg_speed.some
    /\ summary.solar_wind.avg_speed.d = 1

\* C7: the date-range filter keeps a parsed record exactly when its year lies
\* in [start year, end year], its day-of-year is >= the start day-of-year if
\* its year is the start year, and <= the end day-of-year if its year is the
\* end year (year and day-of-year being the integers the filter reads).
C7_DateRangeFilter ==
    pc # "crashed" => all_data = RecordsOf(KeptLines(LoggedLines, range))

\* halloween2003 (days 301..306 of 2003): day 306 is kept.
C7_Witness ==
    /\ pc = "fetched"
    /\ args.event = "halloween2003"
    /\ range = [start_year |-> 2003, start_doy |-> 301,
                end_year |-> 2003, end_doy |-> 306]
    /\ Len(all_data) = 1
    /\ rec_year(all_data[1]) = 2003
    /\ rec_doy(all_data[1]) = 306

\* The instant of a timestamp, in hours since 0001-01-01T00:00.
InstantOf(ts) == (ToOrdinal(ts.y, ts.m, ts.d) - 1) * 24 + ts.h

\* January 1 of the year plus (day-of-year - 1) days plus hour hours, on the
\* integer parts of the three columns.
InstantOfColumns(val) ==
    (ToOrdinal(TruncInt(val["year"].v, 10), 1, 1) - 1
        + TruncInt(val["doy"].v, 10) - 1) * 24 + TruncInt(val["hour"].v, 10)

RECURSIVE TimestampsOf(_)
TimestampsOf(records) ==
    IF records = <<>> THEN <<>>
    ELSE LET rest == TimestampsOf(Tail(records))
         IN  IF Head(records).timestamp.has
             THEN <<Head(records).timestamp>> \o rest
             ELSE rest

\* What C8 says of the timestamp's value and of process_event_data.
TimestampValueAndUse ==
    /\ \A i \in 1..Len(LoggedLines) :
          (ParsesToRecord(LoggedLines[i]) /\ RecordOf(LoggedLines[i]).timestamp.has) =>
              InstantOf(RecordOf(LoggedLines[i]).timestamp)
                  = InstantOfColumns(RecordOf(LoggedLines[i]).val)
    /\ Processing =>
          /\ Len(processed) = Len(TimestampsOf(all_data))
          /\ \A i \in 1..Len(processed) :
                /\ processed[i].timestamp.has
                /\ processed[i].timestamp = TimestampsOf(all_data)[i]

\* C8 as stated: a parsed record has a timestamp exactly when its year,
\* day-of-year and hour are all present.
C8_TimestampWhenPresent ==
    /\ \A i \in 1..Len(LoggedLines) :
          ParsesToRecord(LoggedLines[i]) =>
              LET rec == RecordOf(LoggedLines[i])
              IN  rec.timestamp.has <=>
                      (rec.val["year"].some /\ rec.val["doy"].some
                          /\ rec.val["hour"].some)
    /\ TimestampValueAndUse

\* C8 amended: a parsed record has a timestamp exactly when its year and
\* day-of-year are present and non-zero and its hour is present; the value is
\* January 1 of the year plus (day-of-year - 1) days plus hour hours on the
\* integer parts; process_event_data emits one ProcessedRecord, carrying the
\* timestamp, for each record that has one and none for the others.
C8_TimestampWhenNonZero ==
    /\ \A i \in 1..Len(LoggedLines) :
          ParsesToRecord(LoggedLines[i]) =>
              LET rec == RecordOf(LoggedLines[i])
              IN  rec.timestamp.has <=>
                      /\ rec.val["year"].some /\ rec.val["year"].v # 0
                      /\ rec.val["doy"].some /\ rec.val["doy"].v # 0
                      /\ rec.val["hour"].some
    /\ TimestampValueAndUse

\* A record without a timestamp reached process_event_data and was skipped,
\* while the record before it was processed.
C8_Witness ==
    /\ pc = "processed"
    /\ Len(all_data) = 2
    /\ all_data[1].timestamp.has
    /\ ~all_data[2].timestamp.has
    /\ all_data[2].val["doy"] = Some(0)
    /\ Len(processed) = 1

\* C9: magnetosphere.standoff_re of every ProcessedRecord lies in [4, 15]
\* Earth radii, whatever density, speed and Bz are (present or absent).
C9_StandoffInRange ==
    \A i \in 1..Len(processed) :
        /\ processed[i].magnetosphere.standoff_re >= 4000
        /\ processed[i].magnetosphere.standoff_re <= 15000

\* A record at the lower end of the range: 20 nPa under Bz = -45 nT.
C9_Witness ==
    /\ pc = "processed"
    /\ \E i \in 1..Len(processed) :
          /\ processed[i].solar_wind.pressure = Some(2000000000)
          /\ processed[i].imf.bz = Some(-4500)
          /\ processed[i].magnetosphere.standoff_re = 4000

\* C10: the storm level is the maximum of the number of thresholds among -50,
\* -100, -200, -300, -400 that Dst is <= and the number of thresholds among 5,
\* 6, 7, 8, 9 that raw Kp / 10 is >=, an absent Dst or Kp counting as 0.
C10_StormLevelIsMaxOfCounts ==
    Processing =>
        /\ Len(processed) = Len(ProcessedLines)
        /\ \A i \in 1..Len(processed) :
              LET v   == RecordOf(ProcessedLines[i]).val
                  dst == IF v["dst"].some THEN v["dst"].v ELSE 0
                  kp  == IF v["kp"].some THEN v["kp"].v ELSE 0
                  nd  == Cardinality({t \in {-5000, -10000, -20000, -30000, -40000} :
                                         dst <= t})
                  nk  == Cardinality({k \in {5, 6, 7, 8, 9} : kp >= k * 1000})
              IN  processed[i].geomagnetic.storm_level = Max2(nd, nk)

\* Dst = -450 with raw Kp = 90 gives level 5.
C10_Witness ==
    /\ pc = "processed"
    /\ \E i \in 1..Len(processed) :
          /\ processed[i].geomagnetic.dst = Some(-45000)
          /\ processed[i].geomagnetic.kp = [some |-> TRUE, n |-> 9000, d |-> 10]
          /\ processed[i].geomagnetic.storm_level = 5

----------------------------------------------------------------------------
(* Properties of the classifier, the standoff default and the guards.      *)

\* Dst values (hundredths of nT) around every threshold of the classifier.
DstProbes ==
    {0, -100, -4900, -4999, -5000, -5001, -9999, -10000, -15000, -19999, -20000,
     -29999, -30000, -30001, -39999, -40000, -45000, -100000}

\* C11: for any fixed Kp the storm level is monotonic non-decreasing in |Dst|
\* over Dst <= 0 (for d1 <= d2 <= 0 the level for d1 is at least the level for
\* d2), and with Kp absent the level is 0 at -49, 1 at -50, 2 at -100, 3 at
\* -200, 4 at -300 and 5 at -400.
C11_StormLevelMonotonicInDst ==
    Processing =>
        /\ Len(processed) = Len(ProcessedLines)
        /\ \A i \in 1..Len(processed) :
              LET v     == RecordOf(ProcessedLines[i]).val
                  dst   == v["dst"]
                  kp    == v["kp"]
                  level == processed[i].geomagnetic.storm_level
              IN  (dst.some /\ dst.v <= 0) =>
                    /\ \A d \in DstProbes :
                          /\ d <= dst.v => calculate_storm_intensity(Some(d), kp) >= level
                          /\ d >= dst.v => calculate_storm_intensity(Some(d), kp) <= level
                    /\ ~kp.some =>
                          /\ dst.v = -4900 => level = 0
                          /\ dst.v = -5000 => level = 1
                          /\ dst.v = -10000 => level = 2
                          /\ dst.v = -20000 => level = 3
                          /\ dst.v = -30000 => level = 4
                          /\ dst.v = -40000 => level = 5

\* Dst = -200 with Kp absent was classified as level 3.
C11_Witness ==
    /\ pc = "processed"
    /\ \E i \in 1..Len(processed) :
          /\ processed[i].geomagnetic.dst = Some(-20000)
          /\ ~processed[i].geomagnetic.kp.some
          /\ RecordOf(ProcessedLines[i]).val["kp"] = None
          /\ processed[i].geomagnetic.storm_level = 3

\* C12: calculate_magnetopause_standoff returns exactly 10.0, without failing,
\* whenever density is absent or speed is absent, whatever the other two
\* inputs are.
C12_StandoffDefaultWhenAbsent ==
    \A i \in 1..Len(processed) :
        LET sw == processed[i].solar_wind
            bz == processed[i].imf.bz
        IN  /\ (~sw.density.some \/ ~sw.speed.some)
                  => processed[i].magnetosphere.standoff_re = 10000
            /\ calculate_magnetopause_standoff(None, sw.speed, bz) = 10000
            /\ calculate_magnetopause_standoff(sw.density, None, bz) = 10000
            /\ calculate_magnetopause_standoff(None, None, bz) = 10000

\* Density at its sentinel, speed 800 km/s and Bz = -20 nT: standoff 10.0.
C12_Witness ==
    /\ pc = "processed"
    /\ \E i \in 1..Len(processed) :
          /\ ~processed[i].solar_wind.density.some
          /\ processed[i].solar_wind.speed = Some(800)
          /\ processed[i].imf.bz = Some(-2000)
          /\ processed[i].magnetosphere.standoff_re = 10000

\* The lines that have at least 45 tokens, in order.
RECURSIVE LongLines(_)
LongLines(lines) ==
    IF lines = <<>> THEN <<>>
    ELSE LET rest == LongLines(Tail(lines))
         IN  IF Head(lines).ntok >= 45 THEN <<Head(lines)>> \o rest ELSE rest

\* C13: for any line with fewer than 45 whitespace-separated tokens,
\* parse_omni_line yields no record (returns None), regardless of the tokens'
\* contents: it raises nothing and no record of all_data stems from the line.
C13_ShortLineYieldsNoRecord ==
    LET logged == LoggedLines
    IN  /\ \A i \in 1..Len(logged) :
              logged[i].ntok < 45 => parse_omni_line(logged[i]).kind = "none"
        /\ (pc = "crashed" /\ exc # "TimeoutError")
              => logged[Len(logged)].ntok >= 45
        /\ pc # "crashed"
              => all_data = RecordsOf(KeptLines(LongLines(logged), range))

\* A partition whose only line has 44 tokens, those of day 366 of year 9999
\* among them, was scanned: nothing was raised and nothing kept.
C13_Witness ==
    /\ pc = "fetched"
    /\ exc = "none"
    /\ Len(LoggedLines) = 1
    /\ LoggedLines[1].ntok = 44
    /\ LoggedLines[1].tok["year"] = Num(99990)
    /\ LoggedLines[1].tok["doy"] = Num(3660)
    /\ all_data = <<>>

\* C14: generate_summary applied to a processed result whose data sequence is
\* empty returns the empty summary {} and does not fail.
C14_EmptyDataEmptySummary ==
    /\ (pc = "processed" /\ processed = <<>>) => ENABLED SaveEventData
    /\ (pc = "done" /\ saved /\ processed = <<>>)
          => /\ summary.empty
             /\ summary.time_range.hours = 0
             /\ exc = "none"

\* Every fetched record lacked a timestamp: the processed data is empty and
\* was saved with its summary.
C14_Witness ==
    /\ pc = "done"
    /\ saved
    /\ all_data # <<>>
    /\ processed = <<>>
    /\ summary.empty

\* C15: requesting an event id that is not in the event catalog is reported to
\* the caller as an unknown-event error and is not defaulted to any catalog
\* entry: no year partition is fetched, no record is processed and no output
\* artifact is saved for that request.
C15_UnknownEventReported ==
    (args.event # "" /\ args.event \notin DOMAIN HISTORICAL_EVENTS) =>
        /\ pc \in {"main", "done"}
        /\ pc = "done" => report = "unknown_event"
        /\ range = NoRange
        /\ log = <<>>
        /\ all_data = <<>>
        /\ processed = <<>>
        /\ ~saved
        /\ exc = "none"

\* main returned on an unknown id that was given together with a date.
C15_Witness ==
    /\ pc = "done"
    /\ report = "unknown_event"
    /\ args.event = "carrington1859"
    /\ args.date = Date(2003, 12, 31)
    /\ log = <<>>
    /\ ~saved

\* a can be had from b by deleting elements: the elements of a are elements of
\* b at strictly increasing positions.
RECURSIVE IsSubsequence(_, _)
IsSubsequence(a, b) ==
    IF a = <<>> THEN TRUE
    ELSE IF b = <<>> THEN FALSE
    ELSE IF Head(a) = Head(b) THEN IsSubsequence(Tail(a), Tail(b))
    ELSE IsSubsequence(a, Tail(b))

\* The records of the lines that parse to one, in line order.
RECURSIVE ParsedRecords(_)
ParsedRecords(lines) ==
    IF lines = <<>> THEN <<>>
    ELSE LET rest == ParsedRecords(Tail(lines))
         IN  IF ParsesToRecord(Head(lines)) THEN <<RecordOf(Head(lines))>> \o rest
             ELSE rest

\* C16: the pipeline preserves input order: the year partitions are fetched in
\* ascending order, the records of all_data are records of the fetched lines
\* in partition order and line order within a partition, and the records of
\* process_event_data are those of all_data in the same relative order (an
\* order-preserving subsequence, never reordered or duplicated).
C16_OrderPreserved ==
    /\ \A i \in 1..Len(log) : \A j \in 1..Len(log) :
          i < j => log[i].year < log[j].year
    /\ IsSubsequence(all_data, ParsedRecords(LoggedLines))
    /\ IsSubsequence(processed,
                     [i \in 1..Len(all_data) |-> ProcessRecord(all_data[i])])

\* Three processed records: one of 2003, then two of 2004 in file order, the
\* earlier hour second.
C16_Witness ==
    /\ pc = "processed"
    /\ Len(log) = 2
    /\ Len(processed) = 3
    /\ processed[1].timestamp.y = 2003
    /\ processed[2].timestamp.y = 2004
    /\ processed[3].timestamp.y = 2004
    /\ processed[2].timestamp.h > processed[3].timestamp.h

\* C17: in every ProcessedRecord, whenever solar_wind.pressure is absent,
\* magnetosphere.standoff_re equals the default 10.0: the record-level
\* pressure and the standoff model never disagree about whether a usable
\* dynamic pressure exists.
C17_NoPressureDefaultStandoff ==
    \A i \in 1..Len(processed) :
        ~processed[i].solar_wind.pressure.some
            => processed[i].magnetosphere.standoff_re = 10000

\* Density 0.0 (present) with speed 400 km/s and Bz = -20 nT: no pressure,
\* standoff 10.0.
C17_Witness ==
    /\ pc = "processed"
    /\ \E i \in 1..Len(processed) :
          /\ processed[i].solar_wind.density = Some(0)
          /\ processed[i].solar_wind.speed = Some(400)
          /\ processed[i].imf.bz = Some(-2000)
          /\ ~processed[i].solar_wind.pressure.some
          /\ processed[i].magnetosphere.standoff_re = 10000

====
